---- MODULE Spec2Model ----
(***************************************************************************)
(* A model of src/src/main.rs: an interactive chat client that loads a     *)
(* Config from config.json and relays each prompt read from stdin to one   *)
(* of three backends (online HTTP, Ollama HTTP, python subprocess).        *)
(*                                                                         *)
(* Representation.                                                         *)
(*   String        a sequence of characters (one-character strings); a     *)
(*                 literal that the code never takes apart may stand as    *)
(*                 one element.                                            *)
(*   Option<T>     <<>> for None, <<v>> for Some(v).                       *)
(*   Result<T,E>   [ok |-> TRUE, val |-> v] or [ok |-> FALSE, err |-> e].  *)
(*   JSON value    a record tagged by kind (serde_json::Value).            *)
(*   JSON text     a sequence of lexemes: single characters and complete   *)
(*                 JSON documents (a document never spans a newline).      *)
(***************************************************************************)
EXTENDS Integers, Sequences, FiniteSets, TLC

VARIABLES
    pc,         \* where the process is: start, read, dispatch, await_*, print, exited, panicked
    cfgFile,    \* config.json on disk: [exists, text]
    config,     \* Option<Config>: the value load_config returned
    nRead,      \* number of read_line calls made so far
    line,       \* the raw line the last read_line produced
    prompt,     \* the trimmed prompt of the current iteration
    inflight,   \* the backend calls awaiting completion
    invoked,    \* backends entered for the current prompt, in order
    wire,       \* every HTTP request sent and every process spawned, in order
    result,     \* Option: what the backend of the current prompt came back with
    response,   \* the reply string of the current iteration
    stdout,     \* the last line written to standard output
    asked,      \* line numbers of the prompts handed to the dispatch, in order
    printed,    \* line numbers of the prompts whose reply was printed, in order
    exitReason  \* why the process ended

vars == <<pc, cfgFile, config, nRead, line, prompt, inflight, invoked, wire,
          result, response, stdout, asked, printed, exitReason>>

(***************************************************************************)
(* Bounds of the model.                                                    *)
(***************************************************************************)
\* Lines the REPL reads in one run.
MaxLines == 2
\* Lines in an Ollama response body.
MaxBodyLines == 2

(***************************************************************************)
(* Option, Result and string helpers.                                      *)
(***************************************************************************)
None == <<>>
Some(v) == <<v>>
IsSome(o) == Len(o) = 1
IsNone(o) == Len(o) = 0
unwrap_or(o, d) == IF IsSome(o) THEN o[1] ELSE d

Ok(v) == [ok |-> TRUE, val |-> v]
Err(e) == [ok |-> FALSE, err |-> e]

\* char::is_whitespace on the characters the model uses.
is_whitespace(c) == c \in {" ", "\t", "\n", "\r"}

RECURSIVE trim_start(_)
trim_start(s) ==
    IF s # <<>> /\ is_whitespace(Head(s)) THEN trim_start(Tail(s)) ELSE s

RECURSIVE trim_end(_)
trim_end(s) ==
    IF s # <<>> /\ is_whitespace(s[Len(s)])
    THEN trim_end(SubSeq(s, 1, Len(s) - 1))
    ELSE s

\* Variant of trim that leaves leading whitespace in place.
trim_end_only(s) == trim_end(s)

\* str::trim: leading and trailing whitespace removed.
trim(s) == trim_end(trim_start(s))

\* The byte that is not valid UTF-8, and the character it decodes to.
InvalidByte == "\\xFF"
ReplacementChar == "U+FFFD"

\* String::from_utf8_lossy: every invalid byte becomes U+FFFD.
from_utf8_lossy(bytes) ==
    [i \in 1..Len(bytes) |->
        IF bytes[i] = InvalidByte THEN ReplacementChar ELSE bytes[i]]

\* format!("{:?}", e): the Debug rendering of an error value.
DebugFmt(e) == <<"{:?}", e>>

(***************************************************************************)
(* serde_json::Value and the accessors the code uses.                      *)
(***************************************************************************)
JNull == [kind |-> "null"]
JBool(b) == [kind |-> "bool", b |-> b]
\* A number is held as two words, n = hi * 2^16 + lo, so that values beyond
\* the model checker's integers (2^32 and above) can be written.
Word == 65536
JNumW(hi, lo) == [kind |-> "number", hi |-> hi, lo |-> lo]
JNum(n) == JNumW(n \div Word, n % Word)
JStr(s) == [kind |-> "string", s |-> s]
JArr(items) == [kind |-> "array", items |-> items]
JObj(fields) == [kind |-> "object", fields |-> fields]

\* Value::get(&str)
get(v, key) ==
    IF v.kind = "object" /\ key \in DOMAIN v.fields
    THEN Some(v.fields[key])
    ELSE None

\* Variant of get_idx that counts the elements from one.
get_idx_one_based(v, idx) ==
    IF v.kind = "array" /\ idx >= 1 /\ idx <= Len(v.items)
    THEN Some(v.items[idx])
    ELSE None

\* Value::get(usize)
get_idx(v, idx) ==
    IF v.kind = "array" /\ idx < Len(v.items)
    THEN Some(v.items[idx + 1])
    ELSE None

\* Value::as_str
as_str(v) == IF v.kind = "string" THEN Some(v.s) ELSE None

(***************************************************************************)
(* JSON text.                                                              *)
(***************************************************************************)
Ch(c) == [t |-> "ch", c |-> c]
Doc(v) == [t |-> "doc", v |-> v]
Text(s) == [i \in 1..Len(s) |-> Ch(s[i])]

IsWs(x) == x.t = "ch" /\ is_whitespace(x.c)

\* serde_json::from_str::<Value>: one document, whitespace allowed around it.
from_str(text) ==
    LET sig == SelectSeq(text, LAMBDA x : ~IsWs(x))
    IN  IF Len(sig) = 1 /\ sig[1].t = "doc"
        THEN Ok(sig[1].v)
        ELSE Err("serde_json::Error")

\* str::lines: split at "\n", a "\r" before it removed, no empty last line.
RECURSIVE lines(_)
lines(text) ==
    IF text = <<>> THEN <<>>
    ELSE LET nl == {i \in 1..Len(text) : text[i] = Ch("\n")}
         IN  IF nl = {}
             THEN <<text>>
             ELSE LET i == CHOOSE j \in nl : \A k \in nl : j <= k
                      raw == SubSeq(text, 1, i - 1)
                      l == IF raw # <<>> /\ raw[Len(raw)] = Ch("\r")
                           THEN SubSeq(raw, 1, Len(raw) - 1)
                           ELSE raw
                  IN  <<l>> \o lines(SubSeq(text, i + 1, Len(text)))

(***************************************************************************)
(* Config and load_config.                                                 *)
(***************************************************************************)
\* max_tokens when the Config has none.
DefaultMaxTokens == 64

de_string(v, key) ==
    LET o == get(v, key)
    IN  IF IsSome(o) /\ o[1].kind = "string" THEN Ok(o[1].s) ELSE Err(key)

de_bool(v, key) ==
    LET o == get(v, key)
    IN  IF IsSome(o) /\ o[1].kind = "bool" THEN Ok(o[1].b) ELSE Err(key)

\* Option<String>: an absent key and null are None.
de_opt_string(v, key) ==
    LET o == get(v, key)
    IN  IF IsNone(o) \/ o[1].kind = "null" THEN Ok(None)
        ELSE IF o[1].kind = "string" THEN Ok(Some(o[1].s))
        ELSE Err(key)

\* Option<u32>: an absent key and null are None; a number must fit a u32.
de_opt_u32(v, key) ==
    LET o == get(v, key)
    IN  IF IsNone(o) \/ o[1].kind = "null" THEN Ok(None)
        ELSE IF o[1].kind = "number" /\ o[1].hi >= 0 /\ o[1].hi < Word
             THEN Ok(Some(o[1]))
        ELSE Err(key)

\* #[derive(Deserialize)] struct Config, from a JSON object.
Config(v) ==
    LET model_name == de_string(v, "model_name")
        endpoint == de_opt_string(v, "endpoint")
        use_local_model == de_bool(v, "use_local_model")
        local_framework == de_opt_string(v, "local_framework")
        openai_compatible == de_bool(v, "openai_compatible")
        max_tokens == de_opt_u32(v, "max_tokens")
        api_key == de_opt_string(v, "api_key")
    IN  IF /\ v.kind = "object"
           /\ model_name.ok /\ endpoint.ok /\ use_local_model.ok
           /\ local_framework.ok /\ openai_compatible.ok
           /\ max_tokens.ok /\ api_key.ok
        THEN Ok([model_name |-> model_name.val,
                 endpoint |-> endpoint.val,
                 use_local_model |-> use_local_model.val,
                 local_framework |-> local_framework.val,
                 openai_compatible |-> openai_compatible.val,
                 max_tokens |-> max_tokens.val,
                 api_key |-> api_key.val])
        ELSE Err("serde_json::Error")

\* The document generate_default_config writes.
default_config ==
    <<Doc(JObj([model_name |-> JStr(<<"rinna/nekomata-7b">>),
                endpoint |-> JNull,
                use_local_model |-> JBool(TRUE),
                local_framework |-> JStr(<<"python">>),
                openai_compatible |-> JBool(FALSE),
                max_tokens |-> JNum(128),
                api_key |-> JNull]))>>

\* The config.json files a run may start from.
EndpointVals == {JNull, JStr(<<"http://h/v1">>)}
FrameworkVals == {JNull, JStr(<<"python">>), JStr(<<"ollama">>), JStr(<<"julia">>)}
MaxTokensVals == {JNull, JNum(32)}
ApiKeyVals == {JNull, JStr(<<"sk-secret">>)}

WellFormedDocs ==
    {JObj([model_name |-> JStr(<<"m">>),
           endpoint |-> e,
           use_local_model |-> JBool(l),
           local_framework |-> f,
           openai_compatible |-> JBool(o),
           max_tokens |-> m,
           api_key |-> k]) :
        e \in EndpointVals, l \in BOOLEAN, f \in FrameworkVals,
        o \in BOOLEAN, m \in MaxTokensVals, k \in ApiKeyVals}

OtherDocs ==
    { \* optional keys left out, online backend
      JObj([model_name |-> JStr(<<"m">>), use_local_model |-> JBool(FALSE),
            openai_compatible |-> JBool(TRUE)]),
      \* a required key left out
      JObj([model_name |-> JStr(<<"m">>), openai_compatible |-> JBool(TRUE)]),
      \* max_tokens beyond a u32
      JObj([model_name |-> JStr(<<"m">>), use_local_model |-> JBool(TRUE),
            openai_compatible |-> JBool(FALSE), max_tokens |-> JNumW(Word, 0)]),
      \* not an object
      JStr(<<"m">>) }

ConfigFiles ==
    {[exists |-> FALSE, text |-> <<>>]}
    \cup {[exists |-> TRUE, text |-> <<Ch(" "), Doc(d), Ch("\n")>>] :
             d \in WellFormedDocs \cup OtherDocs}
    \cup {[exists |-> TRUE, text |-> Text(<<"{">>)]}

Cfg == config[1]

\* Lines main and load_config print (the source's text is Japanese).
\* "設定ファイルが見つかりません。デフォルト設定を作成します..."
NoConfigLine == <<"config file not found; creating the default config...">>
\* "チャットクライアントを開始します（空行で終了）"
BannerLine == <<"chat client started (empty line to quit)">>

Init ==
    /\ pc = "start"
    /\ cfgFile \in ConfigFiles
    /\ config = None
    /\ nRead = 0
    /\ line = <<>>
    /\ prompt = <<>>
    /\ inflight = {}
    /\ invoked = <<>>
    /\ wire = <<>>
    /\ result = None
    /\ response = <<>>
    /\ stdout = <<>>
    /\ asked = <<>>
    /\ printed = <<>>
    /\ exitReason = "running"

\* load_config, then the banner main prints.
load_config ==
    /\ pc = "start"
    /\ LET text == IF cfgFile.exists THEN cfgFile.text ELSE default_config
           json == from_str(text)
           cfg == IF json.ok THEN Config(json.val) ELSE json
       IN  /\ cfgFile' = [exists |-> TRUE, text |-> text]
           /\ IF cfg.ok
              THEN /\ config' = Some(cfg.val)
                   /\ pc' = "read"
                   /\ stdout' = BannerLine
                   /\ UNCHANGED exitReason
              ELSE /\ config' = None
                   /\ pc' = "panicked"
                   /\ exitReason' = "load_config: expect"
                   /\ stdout' = IF cfgFile.exists THEN stdout ELSE NoConfigLine
    /\ UNCHANGED <<nRead, line, prompt, inflight, invoked, wire, result,
                   response, asked, printed>>

(***************************************************************************)
(* The REPL of main: read a line.                                          *)
(***************************************************************************)
Bye == <<"/", "b", "y", "e">>
YouPrompt == <<"You > ">>
\* "入力エラー"
InputErrorLine == <<"input error">>
\* "バイバイ！またね！"
ByeLine == <<"bye-bye! see you!">>

\* What read_line may leave in the buffer: a line with its newline, the last
\* line of the input without one, or nothing at end of input.
InputLines ==
    { <<"h", "i", "\n">>,
      <<" ", "h", "i">>,
      <<"y", "o", "\r", "\n">>,
      <<"/", "b", "y", "e", "\n">>,
      <<" ", "/", "b", "y", "e", " ", "\n">>,
      <<"/", "b", "y", "e", " ", "x", "\n">>,
      <<"\n">>,
      <<" ", "\t", "\n">>,
      <<>> }

StdinReads == {Ok(l) : l \in InputLines} \cup {Err("io::Error")}

\* main, from the top of the loop to the dispatch or the break.
main_read ==
    /\ pc = "read"
    /\ nRead < MaxLines
    /\ \E input \in StdinReads :
        /\ nRead' = nRead + 1
        /\ IF ~input.ok
           THEN /\ stdout' = InputErrorLine
                /\ pc' = "exited"
                /\ exitReason' = "read_error"
                /\ line' = <<>>
                /\ prompt' = <<>>
                /\ UNCHANGED asked
           ELSE /\ line' = input.val
                /\ prompt' = trim(input.val)
                /\ IF prompt' = Bye
                   THEN /\ stdout' = ByeLine
                        /\ pc' = "exited"
                        /\ exitReason' = "bye"
                        /\ UNCHANGED asked
                   ELSE IF prompt' = <<>>
                   THEN /\ stdout' = YouPrompt
                        /\ pc' = "exited"
                        /\ exitReason' = "empty"
                        /\ UNCHANGED asked
                   ELSE /\ stdout' = YouPrompt
                        /\ pc' = "dispatch"
                        /\ asked' = Append(asked, nRead')
                        /\ UNCHANGED exitReason
    /\ invoked' = <<>>
    /\ result' = None
    /\ response' = <<>>
    /\ UNCHANGED <<cfgFile, config, inflight, wire, printed>>

(***************************************************************************)
(* Requests and commands the backends build.                               *)
(***************************************************************************)
script_path == <<"./llm_interface.py">>
OllamaDefaultEndpoint == <<"http://localhost:11434/api/generate">>
ContentTypeJson == <<"Content-Type", <<"application/json">>>>

\* Command::new("python").arg(script_path).arg(prompt)
python_command(p) ==
    [kind |-> "spawn", program |-> <<"python">>, args |-> <<script_path, p>>]

\* Variant of ollama_request that attaches the bearer credential.
ollama_request_bearer(p, cfg) ==
    [kind |-> "http",
     method |-> "POST",
     url |-> unwrap_or(cfg.endpoint, OllamaDefaultEndpoint),
     headers |-> IF IsSome(cfg.api_key)
                 THEN {ContentTypeJson,
                       <<"Authorization", <<"Bearer", " ">> \o cfg.api_key[1]>>}
                 ELSE {ContentTypeJson},
     body |-> JObj([model |-> JStr(cfg.model_name),
                    prompt |-> JStr(p),
                    max_tokens |-> unwrap_or(cfg.max_tokens, JNum(DefaultMaxTokens))])]

\* The POST of ollama_inference.
ollama_request(p, cfg) ==
    [kind |-> "http",
     method |-> "POST",
     url |-> unwrap_or(cfg.endpoint, OllamaDefaultEndpoint),
     headers |-> {ContentTypeJson},
     body |-> JObj([model |-> JStr(cfg.model_name),
                    prompt |-> JStr(p),
                    max_tokens |-> unwrap_or(cfg.max_tokens, JNum(DefaultMaxTokens))])]

\* Variant of online_request_body whose custom schema keeps the prompt key.
online_request_body_both(cfg, p) ==
    IF cfg.openai_compatible
    THEN JObj([model |-> JStr(cfg.model_name),
               prompt |-> JStr(p),
               max_tokens |-> unwrap_or(cfg.max_tokens, JNum(DefaultMaxTokens))])
    ELSE JObj([model |-> JStr(cfg.model_name),
               prompt |-> JStr(p),
               input |-> JStr(p),
               max_tokens |-> unwrap_or(cfg.max_tokens, JNum(DefaultMaxTokens))])

\* request_body of online_inference.
online_request_body(cfg, p) ==
    IF cfg.openai_compatible
    THEN JObj([model |-> JStr(cfg.model_name),
               prompt |-> JStr(p),
               max_tokens |-> unwrap_or(cfg.max_tokens, JNum(DefaultMaxTokens))])
    ELSE JObj([model |-> JStr(cfg.model_name),
               input |-> JStr(p),
               max_tokens |-> unwrap_or(cfg.max_tokens, JNum(DefaultMaxTokens))])

\* The headers of the online request: the bearer credential when there is one.
online_headers(cfg) ==
    IF IsSome(cfg.api_key)
    THEN {ContentTypeJson, <<"Authorization", <<"Bearer", " ">> \o cfg.api_key[1]>>}
    ELSE {ContentTypeJson}

\* The POST of online_inference; the endpoint is set when this is built.
online_request(cfg, p) ==
    [kind |-> "http",
     method |-> "POST",
     url |-> cfg.endpoint[1],
     headers |-> online_headers(cfg),
     body |-> online_request_body(cfg, p)]

\* One entry of the wire log: which read and prompt it was made for.
Effect(backend, eff) ==
    [n |-> nRead, for |-> prompt, backend |-> backend, eff |-> eff]

(***************************************************************************)
(* The dispatch of main: local_inference or online_inference.              *)
(***************************************************************************)
\* The HashMap of local_inference.
frameworks == (<<"python">> :> "infer_python") @@ (<<"ollama">> :> "infer_ollama")

\* "サポートされていないローカルフレームワークです"
UnsupportedFramework == <<"unsupported local framework">>

\* Variant of inference_fn that falls back to the python backend.
inference_fn_default_python(cfg) ==
    IF IsSome(cfg.local_framework) /\ cfg.local_framework[1] \in DOMAIN frameworks
    THEN Some(frameworks[cfg.local_framework[1]])
    ELSE Some("infer_python")

\* The lookup of local_inference: the inference function, if any.
inference_fn(cfg) ==
    IF IsSome(cfg.local_framework) /\ cfg.local_framework[1] \in DOMAIN frameworks
    THEN Some(frameworks[cfg.local_framework[1]])
    ELSE None

\* local_inference up to the backend's first suspension, or to its return.
local_inference ==
    /\ pc = "dispatch"
    /\ Cfg.use_local_model
    /\ LET f == inference_fn(Cfg)
       IN  IF IsNone(f)
           THEN /\ response' = UnsupportedFramework
                /\ pc' = "print"
                /\ UNCHANGED <<inflight, invoked, wire>>
           ELSE IF f[1] = "infer_python"
           THEN /\ invoked' = Append(invoked, "python")
                /\ wire' = Append(wire, Effect("python", python_command(prompt)))
                /\ inflight' = inflight \cup {"python"}
                /\ pc' = "await_python"
                /\ UNCHANGED response
           ELSE /\ invoked' = Append(invoked, "ollama")
                /\ wire' = Append(wire, Effect("ollama", ollama_request(prompt, Cfg)))
                /\ inflight' = inflight \cup {"ollama"}
                /\ pc' = "await_ollama"
                /\ UNCHANGED response
    /\ UNCHANGED <<cfgFile, config, nRead, line, prompt, result, stdout,
                   asked, printed, exitReason>>

\* online_inference up to the send: the expect on the endpoint, the request.
online_inference_send ==
    /\ pc = "dispatch"
    /\ ~Cfg.use_local_model
    /\ invoked' = Append(invoked, "online")
    /\ IF IsNone(Cfg.endpoint)
       THEN /\ pc' = "panicked"
            /\ exitReason' = "online_inference: expect"
            /\ UNCHANGED <<inflight, wire>>
       ELSE /\ wire' = Append(wire, Effect("online", online_request(Cfg, prompt)))
            /\ inflight' = inflight \cup {"online"}
            /\ pc' = "await_online"
            /\ UNCHANGED exitReason
    /\ UNCHANGED <<cfgFile, config, nRead, line, prompt, result, response,
                   stdout, asked, printed>>

(***************************************************************************)
(* python_inference: the helper's outcome and the reply made of it.        *)
(***************************************************************************)
\* "Pythonスクリプトエラー: {}"
PythonScriptError == <<"Python script error:", " ">>
\* "Pythonスクリプト呼び出しエラー: {:?}"
PythonSpawnError == <<"Python script call error:", " ">>

StdoutBytes ==
    { <<"h", "i", "\n">>,
      <<" ", "h", "i", " ", "\n">>,
      <<"\n", "a", " ", "b", "\r", "\n">>,
      <<InvalidByte, "\n">>,
      <<" ">>,
      <<>> }

StderrBytes == { <<>>, <<"b", "o", "o", "m", "\n">>, <<" ", InvalidByte>> }

\* What Command::output may resolve to.
PythonOutputs ==
    {Err("io::Error(NotFound)")}
    \cup {Ok([success |-> TRUE, stdout |-> o, stderr |-> <<>>]) : o \in StdoutBytes}
    \cup {Ok([success |-> TRUE, stdout |-> <<"h", "i", "\n">>,
              stderr |-> <<"w", "a", "r", "n", "\n">>])}
    \cup {Ok([success |-> FALSE, stdout |-> o, stderr |-> e]) :
             o \in {<<>>, <<"h", "i", "\n">>}, e \in StderrBytes}

\* Variant of python_reply that trims the end of stdout only.
python_reply_trim_end(output) ==
    IF output.ok
    THEN IF output.val.success
         THEN trim_end(from_utf8_lossy(output.val.stdout))
         ELSE PythonScriptError \o from_utf8_lossy(output.val.stderr)
    ELSE PythonSpawnError \o DebugFmt(output.err)

\* The match on output in python_inference.
python_reply(output) ==
    IF output.ok
    THEN IF output.val.success
         THEN trim(from_utf8_lossy(output.val.stdout))
         ELSE PythonScriptError \o from_utf8_lossy(output.val.stderr)
    ELSE PythonSpawnError \o DebugFmt(output.err)

\* python_inference from the completion of the child process.
python_inference ==
    /\ pc = "await_python"
    /\ \E output \in PythonOutputs :
        /\ result' = Some(output)
        /\ response' = python_reply(output)
    /\ inflight' = inflight \ {"python"}
    /\ pc' = "print"
    /\ UNCHANGED <<cfgFile, config, nRead, line, prompt, invoked, wire,
                   stdout, asked, printed, exitReason>>

(***************************************************************************)
(* ollama_inference: the response and the reply assembled from it.         *)
(***************************************************************************)
\* "Ollama推論エラー"
OllamaError == <<"Ollama inference error">>
\* "Ollama推論エラー: {:?}"
OllamaErrorWith == <<"Ollama inference error:", " ">>
\* "レスポンスの取得に失敗"
BodyReadFailed == <<"failed to get the response">>

\* The lines a server may send.
OllamaLines ==
    { <<Doc(JObj([response |-> JStr(<<"h", "e">>)]))>>,
      <<Doc(JObj([response |-> JStr(<<"l", "l", "o">>), done |-> JBool(FALSE)])),
        Ch("\r")>>,
      <<Doc(JObj([done |-> JBool(TRUE)]))>>,
      <<Doc(JObj([response |-> JNum(42)]))>>,
      <<Ch("x")>>,
      <<>> }

RECURSIVE SeqsUpTo(_, _)
SeqsUpTo(S, n) ==
    IF n = 0 THEN {<<>>}
    ELSE LET shorter == SeqsUpTo(S, n - 1)
         IN  shorter \cup {Append(q, x) : q \in shorter, x \in S}

RECURSIVE Terminated(_)
Terminated(ls) ==
    IF ls = <<>> THEN <<>>
    ELSE Head(ls) \o <<Ch("\n")>> \o Terminated(Tail(ls))

\* Response bodies: every line ended by a newline, and a few that are not.
OllamaBodies ==
    {Terminated(ls) : ls \in SeqsUpTo(OllamaLines, MaxBodyLines)}
    \cup { <<Doc(JObj([response |-> JStr(<<"h", "e">>)])), Ch("\n"),
             Doc(JObj([response |-> JStr(<<"y">>)]))>>,
           <<Doc(JObj([response |-> JStr(<<"h", "e">>)])),
             Doc(JObj([response |-> JStr(<<"y">>)])), Ch("\n")>>,
           <<Doc(JStr(<<"response">>)), Ch("\n"),
             Ch(" "), Doc(JObj([response |-> JStr(<<>>)]))>> }

\* What send, and then text, may resolve to.
OllamaResults ==
    {Err("reqwest::Error(send)")}
    \cup {Ok([text |-> Err("reqwest::Error(body)")])}
    \cup {Ok([text |-> Ok(b)]) : b \in OllamaBodies}

\* Variant of collect_line that puts the fragment in front.
collect_line_prepend(collected_response, l) ==
    LET json == from_str(l)
    IN  IF json.ok
        THEN LET r == get(json.val, "response")
                 resp_text == IF IsSome(r) THEN as_str(r[1]) ELSE None
             IN  IF IsSome(resp_text)
                 THEN resp_text[1] \o collected_response
                 ELSE collected_response
        ELSE collected_response

\* One iteration of the loop over text.lines().
collect_line(collected_response, l) ==
    LET json == from_str(l)
    IN  IF json.ok
        THEN LET r == get(json.val, "response")
                 resp_text == IF IsSome(r) THEN as_str(r[1]) ELSE None
             IN  IF IsSome(resp_text)
                 THEN collected_response \o resp_text[1]
                 ELSE collected_response
        ELSE collected_response

RECURSIVE collect(_, _)
collect(collected_response, ls) ==
    IF ls = <<>> THEN collected_response
    ELSE collect(collect_line(collected_response, Head(ls)), Tail(ls))

\* The match on res in ollama_inference.
ollama_reply(res) ==
    IF res.ok
    THEN LET text == IF res.val.text.ok THEN res.val.text.val
                     ELSE Text(BodyReadFailed)
             collected_response == collect(<<>>, lines(text))
         IN  IF collected_response = <<>>
             THEN OllamaError
             ELSE collected_response
    ELSE OllamaErrorWith \o DebugFmt(res.err)

\* ollama_inference from the completion of the send.
ollama_inference ==
    /\ pc = "await_ollama"
    /\ \E res \in OllamaResults :
        /\ result' = Some(res)
        /\ response' = ollama_reply(res)
    /\ inflight' = inflight \ {"ollama"}
    /\ pc' = "print"
    /\ UNCHANGED <<cfgFile, config, nRead, line, prompt, invoked, wire,
                   stdout, asked, printed, exitReason>>

(***************************************************************************)
(* online_inference: the response and the reply extracted from it.         *)
(***************************************************************************)
\* "レスポンスが不正です"
InvalidResponse == <<"invalid response">>
\* "オンライン推論エラー: {:?}"
OnlineErrorWith == <<"online inference error:", " ">>

Hello == <<"h", "e", "l", "l", "o">>

\* Response bodies a peer may send.
OnlineBodies ==
    { <<Doc(JObj([choices |-> JArr(<<JObj([text |-> JStr(Hello)])>>)]))>>,
      <<Ch("\n"), Doc(JObj([choices |-> JArr(<<JObj([text |-> JStr(<<"a">>)]),
                                                JObj([text |-> JStr(<<"b">>)])>>),
                            generated_text |-> JStr(<<"g">>)])), Ch("\n")>>,
      <<Doc(JObj([choices |-> JArr(<<>>)]))>>,
      <<Doc(JObj([choices |-> JArr(<<JObj([text |-> JNum(42)])>>)]))>>,
      <<Doc(JObj([choices |-> JArr(<<JObj([index |-> JNum(0)])>>)]))>>,
      <<Doc(JObj([choices |-> JObj([text |-> JStr(<<"x">>)])]))>>,
      <<Doc(JObj([choices |-> JArr(<<JStr(Hello)>>)]))>>,
      <<Doc(JObj([error |-> JStr(<<"e">>)]))>>,
      <<Doc(JObj([generated_text |-> JStr(<<"h", "i">>)]))>>,
      <<Doc(JObj([generated_text |-> JNum(7)]))>>,
      <<Doc(JArr(<<JStr(Hello)>>))>>,
      <<Ch("<"), Ch("h"), Ch("1"), Ch(">")>>,
      <<>> }

\* What send may resolve to, and then the reading of the body.
OnlineResults ==
    {Err("reqwest::Error(send)")}
    \cup {Ok([status |-> 200, body |-> Err("reqwest::Error(body)")])}
    \cup {Ok([status |-> 200, body |-> Ok(b)]) : b \in OnlineBodies}
    \cup {Ok([status |-> 500, body |-> Ok(b)]) :
             b \in { <<Doc(JObj([choices |-> JArr(<<JObj([text |-> JStr(Hello)])>>)]))>>,
                     <<Doc(JObj([error |-> JStr(<<"e">>)]))>> }}

\* Response::json: the body read and parsed.
response_json(resp) ==
    IF resp.body.ok
    THEN LET json == from_str(resp.body.val)
         IN  IF json.ok THEN json ELSE Err("reqwest::Error(decode)")
    ELSE resp.body

\* The output of online_inference in OpenAI-compatible mode.
openai_output(res_json) ==
    LET choices == get(res_json, "choices")
        choice == IF IsSome(choices) THEN get_idx(choices[1], 0) ELSE None
        text == IF IsSome(choice) THEN get(choice[1], "text") ELSE None
        str == IF IsSome(text) THEN as_str(text[1]) ELSE None
    IN  unwrap_or(str, InvalidResponse)

\* The output of online_inference in custom mode.
custom_output(res_json) ==
    LET text == get(res_json, "generated_text")
        str == IF IsSome(text) THEN as_str(text[1]) ELSE None
    IN  unwrap_or(str, InvalidResponse)

\* online_inference from the send on: Result<String, reqwest::Error>.
online_output(cfg, res) ==
    IF ~res.ok THEN res
    ELSE LET res_json == response_json(res.val)
         IN  IF ~res_json.ok THEN res_json
             ELSE Ok(IF cfg.openai_compatible
                     THEN openai_output(res_json.val)
                     ELSE custom_output(res_json.val))

\* The match of main on what online_inference returned.
online_reply(cfg, res) ==
    LET r == online_output(cfg, res)
    IN  IF r.ok THEN r.val ELSE OnlineErrorWith \o DebugFmt(r.err)

\* online_inference from the completion of the send, and main's match.
online_inference ==
    /\ pc = "await_online"
    /\ \E res \in OnlineResults :
        /\ result' = Some(res)
        /\ response' = online_reply(Cfg, res)
    /\ inflight' = inflight \ {"online"}
    /\ pc' = "print"
    /\ UNCHANGED <<cfgFile, config, nRead, line, prompt, invoked, wire,
                   stdout, asked, printed, exitReason>>

(***************************************************************************)
(* main: print the reply and go round the loop.                            *)
(***************************************************************************)
AiLine(reply) == <<"AI > ">> \o reply

main_print ==
    /\ pc = "print"
    /\ stdout' = AiLine(response)
    /\ printed' = Append(printed, nRead)
    /\ pc' = "read"
    /\ UNCHANGED <<cfgFile, config, nRead, line, prompt, inflight, invoked,
                   wire, result, response, asked, exitReason>>

Next ==
    \/ load_config
    \/ main_read
    \/ local_inference
    \/ online_inference_send
    \/ python_inference
    \/ ollama_inference
    \/ online_inference
    \/ main_print

Spec == Init /\ [][Next]_vars

(***************************************************************************)
(* Vocabulary of the properties, stated apart from the operators above.    *)
(***************************************************************************)
Loaded == IsSome(config)

\* The dispatch of the current prompt has been entered.
Dispatched ==
    /\ Loaded
    /\ \/ pc \in {"await_python", "await_ollama", "await_online", "print"}
       \/ pc = "panicked"

\* The wire entries made for read number n.
EffectsOf(n) == {i \in DOMAIN wire : wire[i].n = n}

\* p is l without its leading and trailing whitespace.
IsStripOf(p, l) ==
    \E i \in 1..(Len(l) + 1) : \E j \in 0..Len(l) :
        /\ p = SubSeq(l, i, j)
        /\ \A k \in 1..Len(l) : (k < i \/ k > j) => is_whitespace(l[k])
        /\ p # <<>> => ~is_whitespace(p[1]) /\ ~is_whitespace(p[Len(p)])

\* p is l without its trailing whitespace only.
IsStripEndOf(p, l) ==
    \E j \in 0..Len(l) :
        /\ p = SubSeq(l, 1, j)
        /\ \A k \in 1..Len(l) : k > j => is_whitespace(l[k])
        /\ p # <<>> => ~is_whitespace(p[Len(p)])

\* l without its line ending ("\n" or "\r\n"), nothing else removed.
Chomp(l) ==
    LET n == Len(l)
    IN  IF n >= 2 /\ l[n] = "\n" /\ l[n - 1] = "\r" THEN SubSeq(l, 1, n - 2)
        ELSE IF n >= 1 /\ l[n] = "\n" THEN SubSeq(l, 1, n - 1)
        ELSE l

(***************************************************************************)
(* C1: the decision table.                                                 *)
(***************************************************************************)
TableBackend ==
    IF ~Cfg.use_local_model THEN <<"online">>
    ELSE IF Cfg.local_framework = Some(<<"python">>) THEN <<"python">>
    ELSE IF Cfg.local_framework = Some(<<"ollama">>) THEN <<"ollama">>
    ELSE <<>>

\* C1: for every dispatched prompt the backends entered are exactly the one
\* the decision table gives (online; python subprocess; Ollama; none), at most
\* one per prompt; with no table entry there is no HTTP request and no process
\* spawn for the prompt and the reply is the unsupported-framework sentinel.
C1_DecisionTable ==
    Dispatched =>
        /\ invoked = TableBackend
        /\ Len(invoked) <= 1
        /\ Cardinality(EffectsOf(nRead)) <= 1
        /\ \A i \in EffectsOf(nRead) :
              /\ <<wire[i].backend>> = TableBackend
              /\ wire[i].eff.kind = IF wire[i].backend = "python" THEN "spawn" ELSE "http"
        /\ \A b \in inflight : <<b>> = TableBackend
        /\ TableBackend = <<>> =>
              /\ pc = "print"
              /\ EffectsOf(nRead) = {}
              /\ inflight = {}
              /\ response = UnsupportedFramework

\* An unsupported framework answered with the sentinel, on the second prompt.
C1_Witness ==
    /\ Loaded
    /\ pc = "print"
    /\ nRead = 2
    /\ Cfg.use_local_model
    /\ Cfg.local_framework = Some(<<"julia">>)
    /\ response = UnsupportedFramework
    /\ wire = <<>>

(***************************************************************************)
(* C2: the reply assembled from an Ollama body.                            *)
(***************************************************************************)
\* The lines of a body: what lies between its newlines.
RECURSIVE BodyLines(_)
BodyLines(b) ==
    IF b = <<>> THEN <<>>
    ELSE IF \E i \in 1..Len(b) : b[i] = Ch("\n")
    THEN LET i == CHOOSE j \in 1..Len(b) :
                    /\ b[j] = Ch("\n")
                    /\ \A k \in 1..(j - 1) : b[k] # Ch("\n")
         IN  <<SubSeq(b, 1, i - 1)>> \o BodyLines(SubSeq(b, i + 1, Len(b)))
    ELSE <<b>>

\* r_i: the response string of a line; empty for a line that is not one JSON
\* document or has no string response field.
LineResponse(l) ==
    LET docs == {i \in 1..Len(l) : l[i].t = "doc"}
        rest == {i \in 1..Len(l) : l[i].t = "ch" /\ ~is_whitespace(l[i].c)}
    IN  IF Cardinality(docs) = 1 /\ rest = {}
        THEN LET v == l[CHOOSE i \in docs : TRUE].v
             IN  IF /\ v.kind = "object"
                    /\ "response" \in DOMAIN v.fields
                    /\ v.fields["response"].kind = "string"
                 THEN v.fields["response"].s
                 ELSE <<>>
        ELSE <<>>

RECURSIVE Concatenation(_)
Concatenation(ls) ==
    IF ls = <<>> THEN <<>>
    ELSE LineResponse(Head(ls)) \o Concatenation(Tail(ls))

\* The Ollama backend has returned for a body it received.
OllamaReturned ==
    /\ Loaded
    /\ pc = "print"
    /\ invoked = <<"ollama">>
    /\ result[1].ok
    /\ result[1].val.text.ok

\* C2 (as amended): for any Ollama response body the reply equals the
\* concatenation r1 || ... || rn in line order when that is not empty, and the
\* fixed empty-stream sentinel when it is empty.
C2_ConcatOrSentinel ==
    OllamaReturned =>
        LET r == Concatenation(BodyLines(result[1].val.text.val))
        IN  response = IF r = <<>> THEN OllamaError ELSE r

\* C2 (as claimed): for any Ollama response body the reply equals the
\* concatenation r1 || ... || rn in line order.
C2_Original ==
    OllamaReturned =>
        response = Concatenation(BodyLines(result[1].val.text.val))

\* Two fragments stitched in order.
C2_Witness ==
    /\ OllamaReturned
    /\ Len(BodyLines(result[1].val.text.val)) = 2
    /\ response = Hello

(***************************************************************************)
(* C3, C6: what ends the process.                                          *)
(***************************************************************************)
\* C3: no backend error (transport failure, malformed response, subprocess
\* failure, unsupported framework, missing endpoint) ends the REPL: once the
\* Config is loaded the process ends only on an exit line (/bye or empty) or an
\* input read error, and a dispatch that has been entered is awaited or printed.
C3_ReplSurvivesBackendErrors ==
    Loaded =>
        /\ pc # "panicked"
        /\ pc = "exited" => exitReason \in {"bye", "empty", "read_error"}

\* C6: a Config with use_local_model = false and no endpoint is rejected while
\* loading: no such Config is ever loaded, the REPL reads no prompt under it,
\* and no request is built with an unset endpoint.
C6_LoaderRejectsMissingEndpoint ==
    /\ Loaded => (~Cfg.use_local_model => IsSome(Cfg.endpoint))
    /\ (pc = "panicked" /\ exitReason = "online_inference: expect") => nRead = 0
    /\ \A i \in DOMAIN wire :
          wire[i].backend = "online" =>
              IsSome(Cfg.endpoint) /\ wire[i].eff.url = Cfg.endpoint[1]

(***************************************************************************)
(* C4: the reply of the online backend in OpenAI-compatible mode.          *)
(***************************************************************************)
\* The body is one JSON document.
IsJsonBody(b) ==
    /\ Cardinality({i \in 1..Len(b) : b[i].t = "doc"}) = 1
    /\ \A i \in 1..Len(b) : b[i].t = "ch" => is_whitespace(b[i].c)

JsonOf(b) == b[CHOOSE i \in 1..Len(b) : b[i].t = "doc"].v

\* v has choices[0].text as a string.
HasChoicesText(v) ==
    /\ v.kind = "object"
    /\ "choices" \in DOMAIN v.fields
    /\ v.fields["choices"].kind = "array"
    /\ Len(v.fields["choices"].items) >= 1
    /\ v.fields["choices"].items[1].kind = "object"
    /\ "text" \in DOMAIN v.fields["choices"].items[1].fields
    /\ v.fields["choices"].items[1].fields["text"].kind = "string"

ChoicesText(v) == v.fields["choices"].items[1].fields["text"].s

\* The online backend, in OpenAI-compatible mode, has returned for a response
\* whose body it received from the peer.
OpenAiReturned ==
    /\ Loaded
    /\ pc = "print"
    /\ invoked = <<"online">>
    /\ Cfg.openai_compatible
    /\ result[1].ok
    /\ result[1].val.body.ok

\* C4 (as amended): in OpenAI-compatible mode, for every response whose body is
\* a JSON document the reply is choices[0].text when that is a string and the
\* fixed invalid-response sentinel otherwise; for a response whose body is not
\* a JSON document the reply is the online-error diagnostic, not the sentinel.
C4_SentinelForJsonBodies ==
    OpenAiReturned =>
        LET body == result[1].val.body.val
        IN  IF IsJsonBody(body)
            THEN response = IF HasChoicesText(JsonOf(body))
                            THEN ChoicesText(JsonOf(body))
                            ELSE InvalidResponse
            ELSE /\ Len(response) > Len(OnlineErrorWith)
                 /\ SubSeq(response, 1, Len(OnlineErrorWith)) = OnlineErrorWith
                 /\ response # InvalidResponse

\* C4 (as claimed): in OpenAI-compatible mode, for every response received that
\* does not contain choices[0].text as a string (the body not being a JSON
\* document of that shape included) the reply is the fixed invalid-response
\* sentinel; otherwise it is that string.
C4_Original ==
    OpenAiReturned =>
        LET body == result[1].val.body.val
        IN  response = IF IsJsonBody(body) /\ HasChoicesText(JsonOf(body))
                       THEN ChoicesText(JsonOf(body))
                       ELSE InvalidResponse

\* An empty choices array answered with the sentinel.
C4_Witness ==
    /\ OpenAiReturned
    /\ result[1].val.body.val = <<Doc(JObj([choices |-> JArr(<<>>)]))>>
    /\ response = InvalidResponse

(***************************************************************************)
(* C5: the request body of the online backend.                             *)
(***************************************************************************)
OnlineEntries == {i \in DOMAIN wire : wire[i].backend = "online"}

\* C5: every request body the online backend sends has exactly three keys:
\* model (= model_name), max_tokens (= Config.max_tokens, or 64 when unset) and
\* one of prompt (OpenAI-compatible) or input (custom) carrying the prompt,
\* never both; and two dispatches of one prompt send the same body.
C5_OnlineRequestBody ==
    /\ \A i \in OnlineEntries :
          LET body == wire[i].eff.body
              keys == DOMAIN body.fields
              carrier == IF Cfg.openai_compatible THEN "prompt" ELSE "input"
          IN  /\ body.kind = "object"
              /\ Cardinality(keys) = 3
              /\ keys = {"model", "max_tokens", carrier}
              /\ ~({"prompt", "input"} \subseteq keys)
              /\ body.fields["model"] = JStr(Cfg.model_name)
              /\ body.fields[carrier] = JStr(wire[i].for)
              /\ body.fields["max_tokens"].kind = "number"
              /\ IF IsSome(Cfg.max_tokens)
                 THEN body.fields["max_tokens"] = Cfg.max_tokens[1]
                 ELSE /\ body.fields["max_tokens"].hi = 0
                      /\ body.fields["max_tokens"].lo = 64
    /\ \A i, j \in OnlineEntries :
          wire[i].for = wire[j].for => wire[i].eff.body = wire[j].eff.body

\* One prompt dispatched twice in custom mode with max_tokens unset.
C5_Witness ==
    /\ Loaded
    /\ ~Cfg.openai_compatible
    /\ IsNone(Cfg.max_tokens)
    /\ \E i, j \in OnlineEntries : i # j /\ wire[i].for = wire[j].for

(***************************************************************************)
(* C7: the reply of the subprocess backend.                                *)
(***************************************************************************)
\* The subprocess backend has returned.
PythonReturned ==
    /\ Loaded
    /\ pc = "print"
    /\ invoked = <<"python">>
    /\ IsSome(result)

\* The helper was started for the current prompt as python <script> <prompt>:
\* an argument vector, the prompt one element of it.
HelperCommand ==
    /\ Cardinality(EffectsOf(nRead)) = 1
    /\ \A i \in EffectsOf(nRead) :
          /\ wire[i].eff.kind = "spawn"
          /\ wire[i].eff.program = <<"python">>
          /\ Len(wire[i].eff.args) = 2
          /\ wire[i].eff.args[1] = script_path
          /\ wire[i].eff.args[2] = prompt

\* The replies to a non-zero exit and to a spawn failure.
HelperFailureReply ==
    LET o == result[1]
    IN  /\ (o.ok /\ ~o.val.success) =>
              response = PythonScriptError \o from_utf8_lossy(o.val.stderr)
        /\ ~o.ok => response = PythonSpawnError \o DebugFmt(o.err)

\* C7 (as amended): on exit code 0 the reply is the helper's stdout, decoded
\* lossily, with its leading and its trailing whitespace removed; on a non-zero
\* exit it is an error sentinel that includes stderr; on a spawn failure an
\* error sentinel that includes the error. The prompt is a single argument.
C7_StdoutTrimmedBothEnds ==
    PythonReturned =>
        /\ HelperCommand
        /\ HelperFailureReply
        /\ (result[1].ok /\ result[1].val.success) =>
              IsStripOf(response, from_utf8_lossy(result[1].val.stdout))

\* C7 (as claimed): on exit code 0 the reply is the helper's stdout with only
\* trailing whitespace removed, leading whitespace preserved; the rest as above.
C7_Original ==
    PythonReturned =>
        /\ HelperCommand
        /\ HelperFailureReply
        /\ (result[1].ok /\ result[1].val.success) =>
              IsStripEndOf(response, from_utf8_lossy(result[1].val.stdout))

\* A helper that printed " hi \n" and exited with 0.
C7_Witness ==
    /\ PythonReturned
    /\ result[1].ok
    /\ result[1].val.success
    /\ result[1].val.stdout = <<" ", "h", "i", " ", "\n">>
    /\ response = <<"h", "i">>

(***************************************************************************)
(* C8: exit lines and prompts.                                             *)
(***************************************************************************)
\* A line has been read from standard input.
LineRead ==
    /\ Loaded
    /\ nRead >= 1
    /\ exitReason # "read_error"

\* The loop has ended without a dispatch for the line read last.
EndedWithoutDispatch ==
    /\ pc = "exited"
    /\ exitReason \in {"bye", "empty"}
    /\ invoked = <<>>
    /\ EffectsOf(nRead) = {}
    /\ \A i \in DOMAIN asked : asked[i] # nRead

\* The line read last, reduced to p, went to the dispatch as the prompt, and
\* its reply is printed as "AI > <reply>".
PassedAsPrompt(p) ==
    /\ pc # "exited"
    /\ prompt = p
    /\ asked # <<>> /\ asked[Len(asked)] = nRead
    /\ \A i \in EffectsOf(nRead) : wire[i].for = p
    /\ pc = "read" =>
          /\ printed # <<>> /\ printed[Len(printed)] = nRead
          /\ stdout = <<"AI > ">> \o response

IsPrefix(a, b) == Len(a) <= Len(b) /\ a = SubSeq(b, 1, Len(a))

\* C9: at most one dispatch is in flight at any time; the REPL does not read
\* prompt k+1 until the reply to prompt k has been printed; each non-exit
\* prompt produces exactly one printed reply, and the replies are printed in
\* the order their prompts were read.
C9_OneReplyPerPromptInOrder ==
    Loaded =>
        /\ Cardinality(inflight) <= 1
        /\ IsPrefix(printed, asked)
        /\ Len(asked) - Len(printed) <= 1
        /\ \A i \in DOMAIN asked : \A j \in DOMAIN asked : i < j => asked[i] < asked[j]
        /\ pc \in {"read", "exited", "panicked"} => printed = asked

(***************************************************************************)
(* C10: where the api_key goes.                                            *)
(***************************************************************************)
HasAuthorization(e) == \E h \in e.eff.headers : h[1] = "Authorization"

\* The api_key occurs nowhere in the request or command of e.
FreeOfApiKey(e) ==
    IsSome(Cfg.api_key) =>
        IF e.eff.kind = "spawn"
        THEN /\ e.eff.program # Cfg.api_key[1]
             /\ \A k \in DOMAIN e.eff.args : e.eff.args[k] # Cfg.api_key[1]
        ELSE /\ e.eff.url # Cfg.api_key[1]
             /\ \A k \in DOMAIN e.eff.body.fields :
                   e.eff.body.fields[k] # JStr(Cfg.api_key[1])
             /\ \A h \in e.eff.headers :
                   \A k \in 1..Len(h[2]) :
                       SubSeq(h[2], k, Len(h[2])) # Cfg.api_key[1]

\* C10: a request carries Authorization: Bearer <api_key> if and only if the
\* online backend makes it and the Config has an api_key; the requests of the
\* Ollama backend and the command of the subprocess helper never carry it.
C10_ApiKeyOnlyOnline ==
    \A i \in DOMAIN wire :
        LET e == wire[i]
        IN  IF e.backend = "online"
            THEN /\ HasAuthorization(e) <=> IsSome(Cfg.api_key)
                 /\ \A h \in e.eff.headers :
                       h[1] = "Authorization" =>
                           h[2] = <<"Bearer", " ">> \o Cfg.api_key[1]
            ELSE /\ e.eff.kind = "http" => ~HasAuthorization(e)
                 /\ FreeOfApiKey(e)

\* An Ollama request made under a Config that has an api_key.
C10_Witness ==
    /\ Loaded
    /\ IsSome(Cfg.api_key)
    /\ \E i \in DOMAIN wire :
          /\ wire[i].backend = "ollama"
          /\ wire[i].eff.headers = {ContentTypeJson}
====
